---- MODULE Spec2Model ----
(***************************************************************************)
(* Changelog-Weaver: the hierarchy construction and grouping engine.       *)
(*                                                                         *)
(* Three implementations live in the repository and are modelled side by   *)
(* side:                                                                   *)
(*   Work       changelog_weaver/work.py                                   *)
(*   Hierarchy  changelog_weaver/utilities/heirarchy.py                    *)
(*   Builder    changelog_weaver/utilities/heirarchy_builder.py            *)
(*                                                                         *)
(* A work item is a record; the item map `all` is a function from ids to   *)
(* items and `keys` is the insertion order of the Python dict.  Lists of   *)
(* items (children, root_items, group items) are sequences of ids: the     *)
(* Python lists hold references to the objects of the map.                 *)
(***************************************************************************)
EXTENDS Integers, Sequences, FiniteSets, TLC

(***************************************************************************)
(* Bounds                                                                  *)
(***************************************************************************)
MaxItems == 3      \* ids of the tracker: 1..MaxItems
MaxRuns == 2       \* repeated constructions on one object
MaxLen == 3        \* length of the lists handed to the grouping functions
MaxAdds == 3       \* calls of add / add_work_item on one object
MaxNotes == 3      \* work items handed to updateItemGroup
MaxRetries == 5    \* send_request is called with retries in 0..MaxRetries
MaxTasks == 2      \* ids the query of WorkItems.get_items returns

Ids == 1..MaxItems

VARIABLES
  platform,     \* which client converts the fetched items
  all,          \* self.all, the item map: id -> item
  keys,         \* insertion order of the item map
  root_items,   \* self.root_items
  by_type,      \* self.by_type
  hierarchy,    \* the list the last _build_hierarchy call returned
  pc,           \* position in the running method
  runs,         \* constructions completed on this object
  all_items,    \* Work.get_items_with_details: the copy list(self.all.values())
  added,        \* the items handed to add / add_work_item so far, in call order
  all_ids,      \* WorkItems.all_ids
  item_locks,   \* WorkItems.item_locks: id -> tasks holding or awaiting the lock
  tasks,        \* WorkItems.get_items: the call stack of every fetch_item task
  requests,     \* the work item requests sent to the tracker: id -> how many
  group_items,  \* updateItemGroup: the work items to write, in order
  summarize_items, \* updateItemGroup: the flag of that name
  item_i,       \* updateItemGroup: items of the group written so far
  retry_count,  \* summarise: retry_count
  file_md,      \* updateItemGroup: the lines appended to the notes file
  retries,      \* send_request: the parameter of that name
  attempts,     \* send_request, summarise: the outcome of every request sent
  delays,       \* summarise: the seconds of every asyncio.sleep
  parent_work_items, \* src/main.py: the list fetch_parent_items returned
  output        \* changelog.py: what config.output.write was given, in order

\* the state of WorkItems (src/work_items.py) beyond all, root_items, by_type
itemsVars == <<all_ids, item_locks, tasks, requests>>

\* the state of updateItemGroup and summarise (modules/utils.py)
notesVars == <<group_items, summarize_items, item_i, retry_count, file_md>>

\* the state of send_request (src/utils.py) and of the requests of summarise
requestVars == <<retries, attempts, delays>>

\* the state of src/main.py and of changelog.py
mainVars == <<parent_work_items, output>>

vars == <<platform, all, keys, root_items, by_type, hierarchy, pc, runs,
          all_items, added, itemsVars, notesVars, requestVars, mainVars>>

(***************************************************************************)
(* Platform data                                                           *)
(***************************************************************************)
Platforms == {"devops", "github", "github_api"}

\* devops.py: System.WorkItemType is a free string; github*.py: item_type
Types(p) == IF p = "devops" THEN {"Epic", "Bug", "Other"}
            ELSE {"Issue", "PullRequest"}

\* DevOpsClient.root_work_item_type (first type of the root backlog)
root_work_item_type == "Epic"

Icons == {"i1", "i2"}

\* devops: the icon is looked up by the type name; github: by the first label
IconChoices(p, t) == IF p = "devops" THEN {"icon_" \o t} ELSE Icons

\* System.Parent of a DevOps item: the link hierarchy of the tracker is a
\* forest; its ids are numbered so that a parent has the smaller id.
\* GitHub issues carry no parent (parent_id keeps its default 0).
ParentChoices(p, id) == IF p = "devops" THEN 0..(id - 1) ELSE {0}

\* _convert_to_work_item of the platform clients, followed by
\* Work._convert_to_hierarchical (fresh children / children_by_type lists)
_convert_to_work_item(p, id, t, ic, par) ==
  [id |-> id, type |-> t, icon |-> ic,
   root |-> IF p = "devops" THEN t = root_work_item_type ELSE FALSE,
   orphan |-> IF p = "devops" THEN (par = 0 /\ t # root_work_item_type)
              ELSE IF p = "github_api" THEN TRUE ELSE FALSE,
   parent_id |-> par,
   children |-> <<>>, children_by_type |-> <<>>]

(***************************************************************************)
(* Sequence helpers                                                        *)
(***************************************************************************)
Range(s) == {s[i] : i \in DOMAIN s}

Count(s, x) == Cardinality({i \in DOMAIN s : s[i] = x})

NoDup(s) == \A i, j \in DOMAIN s : s[i] = s[j] => i = j

\* list.remove(i-th element)
RemoveAt(s, i) == SubSeq(s, 1, i - 1) \o SubSeq(s, i + 1, Len(s))

\* variant: lst.append(x) without the membership test
AppendIfAbsent_unchecked(s, x) == Append(s, x)

\* `x not in lst` then lst.append(x); items compare by their fields, and two
\* items of one map never share an id
AppendIfAbsent(s, x) == IF x \in Range(s) THEN s ELSE Append(s, x)


(***************************************************************************)
(* Grouping engine                                                         *)
(***************************************************************************)

\* index of the first pair / group of the list with the given key, 0 if none
KeyIndex(s, k) ==
  IF \E i \in DOMAIN s : s[i].type = k
  THEN CHOOSE i \in DOMAIN s : s[i].type = k /\ \A j \in 1..(i - 1) : s[j].type # k
  ELSE 0

\* WorkItemGroup(type=..., icon=..., items=...) of typings/complex_types.py
WorkItemGroup(t, ic, its) == [type |-> t, icon |-> ic, items |-> its]

\* WorkItemGroup(item_type=..., icon=..., items=...) of typings/types.py,
\* the class work.py imports: the attribute is item_type, there is no `type`
WorkItemGroup_types(t, ic, its) == [item_type |-> t, icon |-> ic, items |-> its]

\* Both WorkItemGroup classes are @dataclass with a hand-written __init__ and
\* no declared field: the generated __eq__ compares two empty tuples, so any
\* two groups compare equal.
WorkItemGroup_eq(g, h) == TRUE

\* list.remove(x): drops the first element that is x or compares equal to x
list_remove(s, x) ==
  IF \E i \in DOMAIN s : WorkItemGroup_eq(s[i], x)
  THEN RemoveAt(s, CHOOSE i \in DOMAIN s :
                     /\ WorkItemGroup_eq(s[i], x)
                     /\ \A j \in 1..(i - 1) : ~WorkItemGroup_eq(s[j], x))
  ELSE s

\* one step of the loop of _group_children_by_type: type_groups is a dict in
\* insertion order, a new group takes the icon of the child that opens it
AddToTypeGroups(groups, child) ==
  LET k == KeyIndex(groups, child.type)
  IN  IF k = 0
      THEN Append(groups, WorkItemGroup(child.type, child.icon, <<child.id>>))
      ELSE [groups EXCEPT ![k].items = Append(@, child.id)]

RECURSIVE GroupChildrenLoop(_, _, _, _)
GroupChildrenLoop(items, children, i, groups) ==
  IF i > Len(children) THEN groups
  ELSE GroupChildrenLoop(items, children, i + 1,
                         AddToTypeGroups(groups, items[children[i]]))

\* Hierarchy._group_children_by_type / Builder._group_children_by_type
_group_children_by_type(items, children) ==
  GroupChildrenLoop(items, children, 1, <<>>)

\* Work._group_children_by_type: the same loop, building types.py groups
Work_group_children_by_type(items, children) ==
  LET gs == _group_children_by_type(items, children)
  IN  [i \in DOMAIN gs |->
         WorkItemGroup_types(gs[i].type, gs[i].icon, gs[i].items)]

\* first loop of _group_by_type: grouped_items maps a type to the list of its
\* items, in insertion order of the types
AddToGroupedItems(grouped, item) ==
  LET k == KeyIndex(grouped, item.type)
  IN  IF k = 0
      THEN Append(grouped, [type |-> item.type, value |-> <<item.id>>])
      ELSE [grouped EXCEPT ![k].value = Append(@, item.id)]

RECURSIVE GroupedItemsLoop(_, _, _, _)
GroupedItemsLoop(items, lst, i, grouped) ==
  IF i > Len(lst) THEN grouped
  ELSE GroupedItemsLoop(items, lst, i + 1,
                        AddToGroupedItems(grouped, items[lst[i]]))

\* second loop of _group_by_type: one WorkItemGroup per key, icon=value[0].icon
grouped_children_list(items, lst) ==
  LET grouped == GroupedItemsLoop(items, lst, 1, <<>>)
  IN  [i \in DOMAIN grouped |->
         WorkItemGroup(grouped[i].type, items[grouped[i].value[1]].icon,
                       grouped[i].value)]

\* Hierarchy._group_by_type (heirarchy.py): non_other_items + other_items
Hierarchy_group_by_type(items, lst) ==
  LET gl == grouped_children_list(items, lst)
  IN  SelectSeq(gl, LAMBDA g : g.type # "Other")
        \o SelectSeq(gl, LAMBDA g : g.type = "Other")

\* Builder._group_by_type (heirarchy_builder.py): next(...), remove, append
Builder_group_by_type(items, lst) ==
  LET gl == grouped_children_list(items, lst)
      k  == KeyIndex(gl, "Other")
  IN  IF k = 0 THEN gl
      ELSE Append(list_remove(gl, gl[k]), gl[k])

\* Work._group_by_type: the groups are types.py groups; the search for the
\* "Other" group reads group.type of the first group, which that class does
\* not have (AttributeError).  An empty list reads no group.
Work_group_by_type(items, lst) ==
  LET g0 == grouped_children_list(items, lst)
      gl == [i \in DOMAIN g0 |->
               WorkItemGroup_types(g0[i].type, g0[i].icon, g0[i].items)]
  IN  IF gl = <<>> THEN [raised |-> FALSE, value |-> gl]
      ELSE IF "type" \notin DOMAIN gl[1] THEN [raised |-> TRUE, value |-> <<>>]
      ELSE [raised |-> FALSE, value |-> gl]

(***************************************************************************)
(* Work (work.py)                                                          *)
(***************************************************************************)

\* variant: self.all[work_item.id] = ... without the membership test
Work_add_overwrite(items, ks, wi) ==
  [all |-> [i \in DOMAIN items \cup {wi.id} |->
              IF i = wi.id THEN wi ELSE items[i]],
   keys |-> IF wi.id \in DOMAIN items THEN ks ELSE Append(ks, wi.id)]

\* Work.add: dict insert unless the id is already a key
Work_add(items, ks, wi) ==
  IF wi.id \in DOMAIN items
  THEN [all |-> items, keys |-> ks]
  ELSE [all |-> [i \in DOMAIN items \cup {wi.id} |->
                   IF i = wi.id THEN wi ELSE items[i]],
        keys |-> Append(ks, wi.id)]

\* variant: the parent is fetched whether or not the map holds it
MissingParent_noMapTest(items, id) == items[id].parent_id

\* Work._get_parent, the test of line 290: the parent id to fetch, 0 if none
MissingParent(items, id) ==
  IF items[id].parent_id # 0 /\ items[id].parent_id \notin DOMAIN items
  THEN items[id].parent_id ELSE 0

\* the loop `for item in all_items: await self._get_parent(item)`: the first
\* item of the copy whose parent is to be fetched, as the parent id; 0 if none
LoopFetch(items, lst) ==
  IF \E i \in DOMAIN lst : MissingParent(items, lst[i]) # 0
  THEN MissingParent(items, lst[CHOOSE i \in DOMAIN lst :
                                  /\ MissingParent(items, lst[i]) # 0
                                  /\ \A j \in 1..(i - 1) :
                                       MissingParent(items, lst[j]) = 0])
  ELSE 0

\* variant: _get_parent fetches the parent and does not go on to its parent
NextFetch_noRecursion(items, ks, lst) == LoopFetch(items, lst)

\* the next id get_item_by_id is called with: _get_parent(parent_item) goes on
\* from the parent it has just fetched (the last key of the map, when the map
\* has grown past the copy) while that one's parent is not in the map; then
\* the loop moves on to the next item of the copy
NextFetch(items, ks, lst) ==
  LET parent_item == IF Len(ks) > Len(lst) THEN ks[Len(ks)] ELSE 0
  IN  IF parent_item # 0 /\ parent_item \in DOMAIN items
         /\ MissingParent(items, parent_item) # 0
      THEN MissingParent(items, parent_item)
      ELSE LoopFetch(items, lst)

\* the "Other" item built by _create_other_parent
other_parent(orphaned_items, cbt) ==
  [id |-> 0, type |-> "Other", icon |-> "icon_review",
   root |-> TRUE, orphan |-> FALSE, parent_id |-> 0,
   children |-> orphaned_items, children_by_type |-> cbt]

\* variant: "Other" is created whether or not there are orphans
_create_other_parent_always(items, ks) ==
  LET orphaned_items == SelectSeq(ks, LAMBDA i : items[i].orphan /\ i # 0)
      op == other_parent(orphaned_items,
                         Work_group_children_by_type(items, orphaned_items))
  IN  [all |-> [i \in DOMAIN items \cup {0} |->
                  IF i = 0 THEN op
                  ELSE IF i \in Range(orphaned_items)
                       THEN [items[i] EXCEPT !.parent_id = 0, !.orphan = FALSE]
                       ELSE items[i]],
       keys |-> IF 0 \in DOMAIN items THEN ks ELSE Append(ks, 0)]

\* variant: the absorbed items keep their orphan flag
_create_other_parent_keepFlag(items, ks) ==
  LET orphaned_items == SelectSeq(ks, LAMBDA i : items[i].orphan /\ i # 0)
      op == other_parent(orphaned_items,
                         Work_group_children_by_type(items, orphaned_items))
  IN  IF orphaned_items = <<>>
      THEN [all |-> items, keys |-> ks]
      ELSE [all |-> [i \in DOMAIN items \cup {0} |->
                       IF i = 0 THEN op
                       ELSE IF i \in Range(orphaned_items)
                            THEN [items[i] EXCEPT !.parent_id = 0]
                            ELSE items[i]],
            keys |-> IF 0 \in DOMAIN items THEN ks ELSE Append(ks, 0)]

\* variant: every item but the "Other" one is taken as orphaned
_create_other_parent_allItems(items, ks) ==
  LET orphaned_items == SelectSeq(ks, LAMBDA i : i # 0)
      op == other_parent(orphaned_items,
                         Work_group_children_by_type(items, orphaned_items))
  IN  IF orphaned_items = <<>>
      THEN [all |-> items, keys |-> ks]
      ELSE [all |-> [i \in DOMAIN items \cup {0} |->
                       IF i = 0 THEN op
                       ELSE [items[i] EXCEPT !.parent_id = 0, !.orphan = FALSE]],
            keys |-> IF 0 \in DOMAIN items THEN ks ELSE Append(ks, 0)]

\* Work._create_other_parent
_create_other_parent(items, ks) ==
  LET orphaned_items == SelectSeq(ks, LAMBDA i : items[i].orphan /\ i # 0)
      op == other_parent(orphaned_items,
                         Work_group_children_by_type(items, orphaned_items))
  IN  IF orphaned_items = <<>>
      THEN [all |-> items, keys |-> ks]
      ELSE [all |-> [i \in DOMAIN items \cup {0} |->
                       IF i = 0 THEN op
                       ELSE IF i \in Range(orphaned_items)
                            THEN [items[i] EXCEPT !.parent_id = 0,
                                                  !.orphan = FALSE]
                            ELSE items[i]],
            keys |-> IF 0 \in DOMAIN items THEN ks ELSE Append(ks, 0)]

\* variant: the root test is an `if` of its own instead of the `elif`
TreeStep_rootWithParent(st, id) ==
  LET item == st.all[id]
      s1 == IF item.parent_id # 0 /\ item.parent_id \in DOMAIN st.all
            THEN [st EXCEPT !.all[item.parent_id].children = AppendIfAbsent(@, id)]
            ELSE st
  IN  IF id = 0 THEN st
      ELSE IF item.root /\ ~item.orphan
      THEN [s1 EXCEPT !.root_items = Append(@, id)]
      ELSE s1

\* one turn of the loop of Work._work_item_tree; st = [all, root_items]
TreeStep(st, id) ==
  LET item == st.all[id]
  IN  IF id = 0 THEN st
      ELSE IF item.parent_id # 0 /\ item.parent_id \in DOMAIN st.all
      THEN [st EXCEPT !.all[item.parent_id].children = AppendIfAbsent(@, id)]
      ELSE IF item.root /\ ~item.orphan
      THEN [st EXCEPT !.root_items = Append(@, id)]
      ELSE st

RECURSIVE TreeLoop(_, _, _)
TreeLoop(st, ks, i) ==
  IF i > Len(ks) THEN st ELSE TreeLoop(TreeStep(st, ks[i]), ks, i + 1)

\* Work._work_item_tree
_work_item_tree(items, ks) ==
  LET st == TreeLoop([all |-> items, root_items |-> <<>>], ks, 1)
  IN  IF 0 \in DOMAIN items
      THEN [st EXCEPT !.root_items = Append(@, 0)]
      ELSE st

\* Work._build_hierarchy.process_item; st = [all, root_items, processed_ids]
RECURSIVE Work_process_item(_, _)
RECURSIVE Work_process_children(_, _, _)
Work_process_item(st, id) ==
  IF id \in st.processed_ids THEN st
  ELSE
    LET s1 == [st EXCEPT !.processed_ids = @ \cup {id}]
        item == s1.all[id]
        s2 == IF item.parent_id # 0 /\ item.parent_id \in DOMAIN s1.all
              THEN Work_process_item(
                     [s1 EXCEPT !.all[item.parent_id].children =
                                   AppendIfAbsent(@, id)],
                     item.parent_id)
              ELSE IF id = 0 \/ (item.root /\ ~item.orphan)
              THEN [s1 EXCEPT !.root_items = AppendIfAbsent(@, id)]
              ELSE s1
    IN  IF id # 0 THEN Work_process_children(s2, id, 1) ELSE s2

\* `for child in item.children`: the list is read by position while it may grow
Work_process_children(st, id, k) ==
  IF k > Len(st.all[id].children) THEN st
  ELSE Work_process_children(Work_process_item(st, st.all[id].children[k]),
                             id, k + 1)

RECURSIVE Work_process_all(_, _, _)

\* variant: the values of the map are visited from the last to the first
Work_process_all_lastFirst(st, ks, i) ==
  IF i > Len(ks) THEN st
  ELSE Work_process_all(Work_process_item(st, ks[Len(ks) + 1 - i]), ks, i + 1)

Work_process_all(st, ks, i) ==
  IF i > Len(ks) THEN st
  ELSE Work_process_all(Work_process_item(st, ks[i]), ks, i + 1)

\* Work._build_hierarchy: returns root_items, roots but "Other" get their
\* children grouped
Work_build_hierarchy(items, ks) ==
  LET st == Work_process_all([all |-> items, root_items |-> <<>>,
                              processed_ids |-> {}], ks, 1)
  IN  [all |-> [i \in DOMAIN st.all |->
                  IF i \in Range(st.root_items) /\ i # 0
                  THEN [st.all[i] EXCEPT !.children_by_type =
                          Work_group_children_by_type(st.all, st.all[i].children)]
                  ELSE st.all[i]],
       root_items |-> st.root_items]

(***************************************************************************)
(* Hierarchy (utilities/heirarchy.py)                                      *)
(***************************************************************************)

\* Hierarchy._build_hierarchy.process_item; st = [all, root_items, processed_ids]
RECURSIVE Hierarchy_process_item(_, _)
Hierarchy_process_item(st, id) ==
  IF id \in st.processed_ids THEN st
  ELSE
    LET s1 == [st EXCEPT !.processed_ids = @ \cup {id}]
        item == s1.all[id]
    IN  IF item.parent_id # 0 /\ item.parent_id \in DOMAIN s1.all
        THEN Hierarchy_process_item(
               [s1 EXCEPT !.all[item.parent_id].children = AppendIfAbsent(@, id)],
               item.parent_id)
        ELSE IF ~item.orphan /\ id # 0
        THEN [s1 EXCEPT !.root_items = AppendIfAbsent(@, id)]
        ELSE s1

RECURSIVE Hierarchy_process_all(_, _, _)
Hierarchy_process_all(st, ks, i) ==
  IF i > Len(ks) THEN st
  ELSE Hierarchy_process_all(Hierarchy_process_item(st, ks[i]), ks, i + 1)

\* children_by_type of the roots but "Other" (the closing loop of both
\* _build_hierarchy versions)
GroupRoots(items, roots) ==
  [i \in DOMAIN items |->
     IF i \in Range(roots) /\ i # 0
     THEN [items[i] EXCEPT !.children_by_type =
             _group_children_by_type(items, items[i].children)]
     ELSE items[i]]

\* Hierarchy._build_hierarchy; roots is self.root_items at the call
Hierarchy_build_hierarchy(items, ks, roots) ==
  LET st == Hierarchy_process_all([all |-> items, root_items |-> roots,
                                   processed_ids |-> {}], ks, 1)
      a1 == IF 0 \in DOMAIN st.all
            THEN [st.all EXCEPT ![0].children_by_type =
                    _group_children_by_type(st.all, st.all[0].children)]
            ELSE st.all
      r1 == IF 0 \in DOMAIN st.all THEN Append(st.root_items, 0)
            ELSE st.root_items
      a2 == GroupRoots(a1, r1)
  IN  [all |-> a2, root_items |-> r1,
       by_type |-> Hierarchy_group_by_type(a2, r1)]

(***************************************************************************)
(* Builder (utilities/heirarchy_builder.py)                                *)
(***************************************************************************)

\* Hierarchy._build_hierarchy.process_item of heirarchy_builder.py
RECURSIVE Builder_process_item(_, _)
RECURSIVE Builder_process_children(_, _, _)
\* variant: the root test comes before the parent test
Builder_process_item_rootFirst(st, id) ==
  IF id \in st.processed_ids THEN st
  ELSE
    LET s1 == [st EXCEPT !.processed_ids = @ \cup {id}]
        item == s1.all[id]
        s2 == IF item.root /\ ~item.orphan
              THEN [s1 EXCEPT !.root_items = AppendIfAbsent(@, id)]
              ELSE IF item.parent_id # 0 /\ item.parent_id \in DOMAIN s1.all
              THEN Builder_process_item(
                     [s1 EXCEPT !.all[item.parent_id].children =
                                   AppendIfAbsent(@, id)],
                     item.parent_id)
              ELSE IF ~item.orphan
              THEN [s1 EXCEPT !.root_items = AppendIfAbsent(@, id)]
              ELSE s1
    IN  IF id # 0 THEN Builder_process_children(s2, id, 1) ELSE s2

\* variant: `if item.parent_id in self.all`, without the test for 0
Builder_process_item_noZeroTest(st, id) ==
  IF id \in st.processed_ids THEN st
  ELSE
    LET s1 == [st EXCEPT !.processed_ids = @ \cup {id}]
        item == s1.all[id]
        s2 == IF item.parent_id \in DOMAIN s1.all
              THEN Builder_process_item(
                     [s1 EXCEPT !.all[item.parent_id].children =
                                   AppendIfAbsent(@, id)],
                     item.parent_id)
              ELSE IF ~item.orphan
              THEN [s1 EXCEPT !.root_items = AppendIfAbsent(@, id)]
              ELSE s1
    IN  IF id # 0 THEN Builder_process_children(s2, id, 1) ELSE s2

\* variant: only an item that has a summary is taken as a root
Builder_process_item_summarised(st, id) ==
  IF id \in st.processed_ids THEN st
  ELSE
    LET s1 == [st EXCEPT !.processed_ids = @ \cup {id}]
        item == s1.all[id]
        s2 == IF item.parent_id # 0 /\ item.parent_id \in DOMAIN s1.all
              THEN Builder_process_item(
                     [s1 EXCEPT !.all[item.parent_id].children =
                                   AppendIfAbsent(@, id)],
                     item.parent_id)
              ELSE IF ~item.orphan /\ item.summary \notin {"None", ""}
              THEN [s1 EXCEPT !.root_items = AppendIfAbsent(@, id)]
              ELSE s1
    IN  IF id # 0 THEN Builder_process_children(s2, id, 1) ELSE s2

Builder_process_item(st, id) ==
  IF id \in st.processed_ids THEN st
  ELSE
    LET s1 == [st EXCEPT !.processed_ids = @ \cup {id}]
        item == s1.all[id]
        s2 == IF item.parent_id # 0 /\ item.parent_id \in DOMAIN s1.all
              THEN Builder_process_item(
                     [s1 EXCEPT !.all[item.parent_id].children =
                                   AppendIfAbsent(@, id)],
                     item.parent_id)
              ELSE IF ~item.orphan
              THEN [s1 EXCEPT !.root_items = AppendIfAbsent(@, id)]
              ELSE s1
    IN  IF id # 0 THEN Builder_process_children(s2, id, 1) ELSE s2

Builder_process_children(st, id, k) ==
  IF k > Len(st.all[id].children) THEN st
  ELSE Builder_process_children(
         Builder_process_item(st, st.all[id].children[k]), id, k + 1)

RECURSIVE Builder_process_all(_, _, _)
Builder_process_all(st, ks, i) ==
  IF i > Len(ks) THEN st
  ELSE Builder_process_all(Builder_process_item(st, ks[i]), ks, i + 1)

\* Hierarchy._build_hierarchy of heirarchy_builder.py
Builder_build_hierarchy(items, ks, roots) ==
  LET st == Builder_process_all([all |-> items, root_items |-> roots,
                                 processed_ids |-> {}], ks, 1)
      a2 == GroupRoots(st.all, st.root_items)
  IN  [all |-> a2, root_items |-> st.root_items,
       by_type |-> Builder_group_by_type(a2, st.root_items)]

(***************************************************************************)
(* Work: the steps of get_items_with_details and get_items_from_query      *)
(***************************************************************************)
EmptyMap == [i \in {} |-> 0]

\* the objects of the other programs, as their constructors leave them
NoWorkItems == all_ids = {} /\ item_locks = EmptyMap /\ tasks = <<>> /\ requests = EmptyMap

NoNotes ==
  /\ group_items = <<>> /\ summarize_items = FALSE
  /\ item_i = 0 /\ retry_count = 0 /\ file_md = <<>>

NoRequests == retries = 0 /\ attempts = <<>> /\ delays = <<>>

NoMain == parent_work_items = <<>> /\ output = <<>>

InitOn(ps) ==
  /\ platform \in ps
  /\ all_items = <<>>
  /\ added = <<>>
  /\ NoWorkItems
  /\ NoRequests /\ NoMain
  /\ NoNotes
  /\ all = EmptyMap
  /\ keys = <<>>
  /\ root_items = <<>>
  /\ by_type = <<>>
  /\ hierarchy = <<>>
  /\ pc = "add"
  /\ runs = 0

\* work.py talks to DevOpsClient (devops.py) and GitHubClient (github.py);
\* the Hierarchy classes take the items of DevOpsAPI and GitHubAPI
Init == InitOn(Platforms)

\* `for item in items: self.add(item)`, one item of the query result
add ==
  /\ pc = "add"
  /\ \E id \in Ids : \E t \in Types(platform) :
       \E ic \in IconChoices(platform, t) : \E par \in ParentChoices(platform, id) :
         LET r == Work_add(all, keys, _convert_to_work_item(platform, id, t, ic, par))
         IN  all' = r.all /\ keys' = r.keys
  /\ UNCHANGED <<all_items, added, itemsVars, notesVars, requestVars, mainVars, platform, root_items, by_type, hierarchy, pc, runs>>

\* get_items_with_details line 180: all_items = list(self.all.values()), taken
\* when the loop of adds has ended
AllItems == IF pc = "add" THEN keys ELSE all_items

\* Work._get_parent / Work.get_item_by_id: one fetch of a parent that is not
\* in the map yet
get_parent ==
  /\ pc \in {"add", "parents"}
  /\ all_items' = AllItems
  /\ NextFetch(all, keys, AllItems) # 0
  /\ LET id == NextFetch(all, keys, AllItems)
     IN  \E t \in Types(platform) : \E ic \in IconChoices(platform, t) :
           \E par \in ParentChoices(platform, id) :
             LET r == Work_add(all, keys,
                               _convert_to_work_item(platform, id, t, ic, par))
             IN  all' = r.all /\ keys' = r.keys
  /\ pc' = "parents"
  /\ UNCHANGED <<added, itemsVars, notesVars, requestVars, mainVars, platform, root_items, by_type, hierarchy, runs>>

\* get_items_with_details line 184
create_other_parent ==
  /\ pc \in {"add", "parents"}
  /\ all_items' = AllItems
  /\ NextFetch(all, keys, AllItems) = 0
  /\ LET r == _create_other_parent(all, keys)
     IN  all' = r.all /\ keys' = r.keys
  /\ pc' = "other"
  /\ UNCHANGED <<added, itemsVars, notesVars, requestVars, mainVars, platform, root_items, by_type, hierarchy, runs>>

\* get_items_with_details line 185
work_item_tree ==
  /\ pc = "other"
  /\ platform \in {"devops", "github"}
  /\ LET r == _work_item_tree(all, keys)
     IN  all' = r.all /\ root_items' = r.root_items
  /\ pc' = "tree"
  /\ UNCHANGED <<all_items, added, itemsVars, notesVars, requestVars, mainVars, platform, keys, by_type, hierarchy, runs>>

\* get_items_with_details line 187: the AttributeError ends the call
group_by_type ==
  /\ pc = "tree"
  /\ LET r == Work_group_by_type(all, root_items)
     IN  IF r.raised
         THEN pc' = "raised" /\ UNCHANGED by_type
         ELSE pc' = "grouped" /\ by_type' = r.value
  /\ UNCHANGED <<all_items, added, itemsVars, notesVars, requestVars, mainVars, platform, all, keys, root_items, hierarchy, runs>>

\* get_items_with_details line 189
build_hierarchy ==
  /\ pc = "grouped"
  /\ LET r == Work_build_hierarchy(all, keys)
     IN  all' = r.all /\ hierarchy' = r.root_items
  /\ pc' = "done"
  /\ UNCHANGED <<all_items, added, itemsVars, notesVars, requestVars, mainVars, platform, keys, root_items, by_type, runs>>

\* Work.get_items_from_query on the object a failed get_items_with_details
\* left; the query returns items the map already holds, so its adds do nothing
get_items_from_query ==
  /\ pc = "raised"
  /\ LET r == Work_build_hierarchy(all, keys)
     IN  all' = r.all /\ hierarchy' = r.root_items
  /\ pc' = "queried"
  /\ UNCHANGED <<all_items, added, itemsVars, notesVars, requestVars, mainVars, platform, keys, root_items, by_type, runs>>

\* _create_other_parent, _work_item_tree and _build_hierarchy invoked again
\* on the map the first construction left
Rebuild(items, ks) ==
  LET s1 == _create_other_parent(items, ks)
      s2 == _work_item_tree(s1.all, s1.keys)
      s3 == Work_build_hierarchy(s2.all, s1.keys)
  IN  [all |-> s3.all, keys |-> s1.keys, root_items |-> s2.root_items,
       hierarchy |-> s3.root_items]

rebuild ==
  /\ pc \in {"done", "queried"}
  /\ runs < MaxRuns
  /\ LET r == Rebuild(all, keys)
     IN  /\ all' = r.all /\ keys' = r.keys
         /\ root_items' = r.root_items /\ hierarchy' = r.hierarchy
  /\ runs' = runs + 1
  /\ UNCHANGED <<all_items, added, itemsVars, notesVars, requestVars, mainVars, platform, by_type, pc>>

\* Hierarchy(all_items) of heirarchy.py: __init__ runs _build_hierarchy on
\* the map it is handed (items of DevOpsAPI / GitHubAPI)
Hierarchy_init ==
  /\ pc \in {"add", "parents", "other"}
  /\ platform \in {"devops", "github_api"}
  /\ LET r == Hierarchy_build_hierarchy(all, keys, <<>>)
     IN  all' = r.all /\ root_items' = r.root_items /\ by_type' = r.by_type
  /\ pc' = "hierarchy"
  /\ UNCHANGED <<all_items, added, itemsVars, notesVars, requestVars, mainVars, platform, keys, hierarchy, runs>>

\* self._build_hierarchy() called again on a Hierarchy of heirarchy.py:
\* root_items is not reset, the map is the one the first call left
Hierarchy_rerun ==
  /\ pc = "hierarchy"
  /\ runs < MaxRuns
  /\ LET r == Hierarchy_build_hierarchy(all, keys, root_items)
     IN  all' = r.all /\ root_items' = r.root_items /\ by_type' = r.by_type
  /\ runs' = runs + 1
  /\ UNCHANGED <<all_items, added, itemsVars, notesVars, requestVars, mainVars, platform, keys, hierarchy, pc>>

\* Hierarchy(all_items) of heirarchy_builder.py
Builder_init ==
  /\ pc \in {"add", "parents", "other"}
  /\ platform \in {"devops", "github_api"}
  /\ LET r == Builder_build_hierarchy(all, keys, <<>>)
     IN  all' = r.all /\ root_items' = r.root_items /\ by_type' = r.by_type
  /\ pc' = "builder"
  /\ UNCHANGED <<all_items, added, itemsVars, notesVars, requestVars, mainVars, platform, keys, hierarchy, runs>>

Next ==
  \/ add
  \/ get_parent
  \/ create_other_parent
  \/ work_item_tree
  \/ group_by_type
  \/ build_hierarchy
  \/ get_items_from_query
  \/ rebuild
  \/ Hierarchy_init
  \/ Hierarchy_rerun
  \/ Builder_init

Spec == Init /\ [][Next]_vars

(***************************************************************************)
(* Work.get_items_with_details on parent references of any shape           *)
(***************************************************************************)
\* the lists of the ids of a set in ascending and in descending order
RECURSIVE Ascending(_)
Ascending(set) ==
  IF set = {} THEN <<>>
  ELSE LET m == CHOOSE x \in set : \A y \in set : x <= y
       IN  <<m>> \o Ascending(set \ {m})

Descending(set) ==
  LET a == Ascending(set) IN [i \in DOMAIN a |-> a[Len(a) + 1 - i]]

\* System.Parent of an item is any id of the tracker, the item's own id and
\* ids that close a cycle included, or absent
AnyParent == 0..MaxItems

\* the map after `for item in items: self.add(item)`
InitCycle ==
  /\ platform = "devops"
  /\ all_items = <<>>
  /\ added = <<>>
  /\ NoWorkItems
  /\ NoRequests /\ NoMain
  /\ NoNotes
  /\ \E set \in {x \in SUBSET Ids : Cardinality(x) <= MaxLen} :
       /\ keys \in {Ascending(set), Descending(set)}
       /\ \E ps \in [set -> AnyParent] :
            all = [i \in set |->
                     _convert_to_work_item("devops", i, "Bug", "icon_Bug", ps[i])]
  /\ root_items = <<>>
  /\ by_type = <<>>
  /\ hierarchy = <<>>
  /\ pc = "add"
  /\ runs = 0

\* Work._get_parent / Work.get_item_by_id: the lookup returns the item with
\* the requested id
_get_parent ==
  /\ pc \in {"add", "parents"}
  /\ all_items' = AllItems
  /\ NextFetch(all, keys, AllItems) # 0
  /\ LET id == NextFetch(all, keys, AllItems)
     IN  \E par \in AnyParent :
           LET r == Work_add(all, keys,
                             _convert_to_work_item("devops", id, "Epic", "icon_Epic", par))
           IN  all' = r.all /\ keys' = r.keys
  /\ pc' = "parents"
  /\ UNCHANGED <<added, itemsVars, notesVars, requestVars, mainVars, platform,
                 root_items, by_type, hierarchy, runs>>

NextCycle ==
  \/ _get_parent
  \/ create_other_parent
  \/ work_item_tree
  \/ group_by_type
  \/ build_hierarchy

\* every await of get_items_with_details returns, and the code between two
\* awaits runs
SpecCycle ==
  /\ InitCycle /\ [][NextCycle]_vars
  /\ WF_vars(_get_parent) /\ WF_vars(create_other_parent)
  /\ WF_vars(work_item_tree) /\ WF_vars(group_by_type)

(***************************************************************************)
(* The grouping functions on arbitrary lists                               *)
(***************************************************************************)
GroupTypes == {"Epic", "Bug", "Other"}

\* the lists: items 1..n in list order, each with a type and an icon
InitGroup ==
  /\ platform = "devops"
  /\ all_items = <<>>
  /\ added = <<>>
  /\ NoWorkItems
  /\ NoRequests /\ NoMain
  /\ NoNotes
  /\ \E n \in 0..MaxLen :
       /\ keys = [i \in 1..n |-> i]
       /\ \E ts \in [1..n -> GroupTypes] : \E ics \in [1..n -> Icons] :
            all = [i \in 1..n |->
                     [_convert_to_work_item("devops", i, ts[i], ics[i], 0)
                        EXCEPT !.orphan = FALSE]]
  /\ root_items = keys
  /\ by_type = <<>>
  /\ hierarchy = <<>>
  /\ pc = "input"
  /\ runs = 0

\* Hierarchy._group_by_type(items) of heirarchy.py
Hierarchy_group ==
  /\ pc = "input"
  /\ by_type' = Hierarchy_group_by_type(all, root_items)
  /\ pc' = "hierarchy_grouped"
  /\ UNCHANGED <<all_items, added, itemsVars, notesVars, requestVars, mainVars, platform, all, keys, root_items, hierarchy, runs>>

\* Hierarchy._group_by_type(items) of heirarchy_builder.py
Builder_group ==
  /\ pc = "input"
  /\ by_type' = Builder_group_by_type(all, root_items)
  /\ pc' = "builder_grouped"
  /\ UNCHANGED <<all_items, added, itemsVars, notesVars, requestVars, mainVars, platform, all, keys, root_items, hierarchy, runs>>

NextGroup == Hierarchy_group \/ Builder_group

SpecGroup == InitGroup /\ [][NextGroup]_vars

(***************************************************************************)
(* Hierarchy construction over items that carry a summary                  *)
(***************************************************************************)
\* WorkItem.summary (typings/base_types.py): None, empty, or a text
Summaries == {"None", "", "text"}

\* the item with its summary field
WithSummary(item, summary) ==
  [f \in DOMAIN item \cup {"summary"} |->
     IF f = "summary" THEN summary ELSE item[f]]

\* the maps: items 1..n of the tracker, every one with a type, a parent and a
\* summary, inserted parents first or children first
InitSummary ==
  /\ platform = "devops"
  /\ \E n \in 0..MaxLen :
       /\ keys \in {[i \in 1..n |-> i], [i \in 1..n |-> n + 1 - i]}
       /\ \E ts \in [1..n -> Types("devops")] :
            \E ps \in {f \in [1..n -> 0..n] : \A i \in 1..n : f[i] < i} :
              \E sm \in [1..n -> Summaries] :
                all = [i \in 1..n |->
                         WithSummary(_convert_to_work_item("devops", i, ts[i],
                                       "icon_" \o ts[i], ps[i]), sm[i])]
  /\ root_items = <<>>
  /\ by_type = <<>>
  /\ hierarchy = <<>>
  /\ pc = "add"
  /\ runs = 0
  /\ all_items = <<>>
  /\ added = <<>>
  /\ NoWorkItems
  /\ NoRequests /\ NoMain
  /\ NoNotes

NextSummary == Builder_init

SpecSummary == InitSummary /\ [][NextSummary]_vars

(***************************************************************************)
(* WorkItems (src/work_items.py)                                           *)
(***************************************************************************)
WorkItemTypes == {"Bug", "Other"}

\* WorkItem(...) as fetch_item builds it from a response: parent is
\* System.Parent or 0, the icon is the one ItemTypes has for the type, the
\* children lists start empty
WorkItem(id, t, par, cc) ==
  [id |-> id, type |-> t, icon |-> "icon_" \o t, parent |-> par,
   comment_count |-> cc, children |-> <<>>, children_by_type |-> <<>>]

\* the ids under which the tracker may hold a work item with comments
Commented == {1}

\* the work items the tracker can hold under an id: System.Parent is an
\* older work item or absent
\* variant: System.Parent is any id of the tracker, the item's own included
WorkItemsOf_anyParent(id) ==
  {WorkItem(id, t, par, cc) : t \in WorkItemTypes, par \in 0..MaxItems,
                              cc \in IF id \in Commented THEN {0, 1} ELSE {0}}

WorkItemsOf(id) ==
  {WorkItem(id, t, par, cc) : t \in WorkItemTypes, par \in 0..(id - 1),
                              cc \in IF id \in Commented THEN {0, 1} ELSE {0}}

\* WorkItems.add_work_item: the membership test is on all_ids
add_work_item(items, ks, ids, work_item) ==
  IF work_item.id \notin ids
  THEN [all |-> [i \in DOMAIN items \cup {work_item.id} |->
                   IF i = work_item.id THEN work_item ELSE items[i]],
        keys |-> IF work_item.id \in DOMAIN items THEN ks
                 ELSE Append(ks, work_item.id),
        all_ids |-> ids \cup {work_item.id}]
  ELSE [all |-> items, keys |-> ks, all_ids |-> ids]

\* self.item_locks[item_id], an asyncio.Lock: whether it is held, and the
\* tasks waiting for it in order of arrival.  A lock that was never asked for
\* is not in the dict.
NewLock == [locked |-> FALSE, waiters |-> <<>>]

LockOf(locks, id) == IF id \in DOMAIN locks THEN locks[id] ELSE NewLock

SetLock(locks, id, l) ==
  [i \in DOMAIN locks \cup {id} |-> IF i = id THEN l ELSE locks[i]]

\* Lock.release(): the lock is free, and the first waiter, if any, is woken
\* and takes it when it runs next
release(locks, id) == SetLock(locks, id, [locks[id] EXCEPT !.locked = FALSE])

\* send_request for the work item item_id (line 135) is called once more
Sent(reqs, item_id) ==
  [i \in DOMAIN reqs \cup {item_id} |->
     IF i # item_id THEN reqs[i]
     ELSE IF item_id \in DOMAIN reqs THEN reqs[item_id] + 1 ELSE 1]

\* a fetch_item call that is suspended or awaits a nested call: the id, the
\* await it is at, and its local work_item once the response is there
Frame(id, at, work_item) == [id |-> id, at |-> at, work_item |-> work_item]

\* the await a task is suspended at, "" when it has no call in progress
At(task) == IF task.stack = <<>> THEN "" ELSE task.stack[Len(task.stack)].at

\* A task runs from one suspension to the next without another task running
\* in between.  st = [all, keys, all_ids, item_locks, requests, stack, status]
\* is the state of the object and of the running task t.
RECURSIVE fetch_item_call(_, _, _)
RECURSIVE fetch_item_locked(_, _, _)
RECURSIVE fetch_item_return(_, _, _)
RECURSIVE get_parent_of(_, _, _)

\* fetch_item lines 123-126: make the lock if there is none, then acquire it;
\* acquire() suspends when the lock is held or others wait for it
fetch_item_call(st, t, item_id) ==
  LET l == LockOf(st.item_locks, item_id)
  IN  IF ~l.locked /\ l.waiters = <<>>
      THEN fetch_item_locked(
             [st EXCEPT !.item_locks =
                SetLock(@, item_id, [locked |-> TRUE, waiters |-> <<>>])],
             t, item_id)
      ELSE [st EXCEPT !.item_locks =
                        SetLock(@, item_id, [l EXCEPT !.waiters = Append(@, t)]),
                      !.stack = Append(@, Frame(item_id, "lock", <<>>))]

\* fetch_item lines 127-135, the lock held: an id in all_ids returns the
\* stored item (leaving the `async with` releases the lock); any other id
\* sends the request and awaits the response
fetch_item_locked(st, t, item_id) ==
  IF item_id \in st.all_ids
  THEN fetch_item_return([st EXCEPT !.item_locks = release(@, item_id)],
                         t, st.all[item_id].id)
  ELSE [st EXCEPT !.requests = Sent(@, item_id),
                  !.stack = Append(@, Frame(item_id, "request", <<>>))]

\* fetch_item has returned the item with the given id: to the event loop when
\* it was the task's own call, else to get_parent line 235, which goes on with
\* get_parent(parent_item)
fetch_item_return(st, t, id) ==
  IF st.stack = <<>> THEN [st EXCEPT !.status = "done"]
  ELSE get_parent_of(st, t, st.all[id].parent)

\* get_parent lines 233-236 for an item with the given parent id; when there
\* is nothing to fetch, the chain of get_parent calls returns to fetch_item
\* line 184, which awaits the summary (get_summary is True)
get_parent_of(st, t, parent_id) ==
  IF parent_id # 0 /\ parent_id \notin Range(st.keys)
  THEN fetch_item_call(st, t, parent_id)
  ELSE [st EXCEPT !.stack[Len(st.stack)].at = "summary"]

\* fetch_item lines 181-184, after the work item and its comments are there
parent_check(st, t) ==
  LET work_item == st.stack[Len(st.stack)].work_item
  IN  IF work_item.parent \notin st.all_ids /\ work_item.parent # 0
      THEN get_parent_of([st EXCEPT !.stack[Len(st.stack)].at = "parent"],
                         t, work_item.parent)
      ELSE [st EXCEPT !.stack[Len(st.stack)].at = "summary"]

\* fetch_item lines 139-180: the response is there
fetch_item_response(st, t, work_item) ==
  LET s1 == [st EXCEPT !.stack[Len(st.stack)].work_item = work_item]
  IN  IF work_item.comment_count # 0
      THEN [s1 EXCEPT !.stack[Len(st.stack)].at = "comments"]
      ELSE parent_check(s1, t)

\* fetch_item lines 194-198: the summary is there; the lock is released,
\* then the item is stored and returned with no await in between
fetch_item_finish(st, t) ==
  LET f == st.stack[Len(st.stack)]
      wi == f.work_item
      s1 == [st EXCEPT
               !.item_locks = release(@, f.id),
               !.all = [i \in DOMAIN st.all \cup {wi.id} |->
                          IF i = wi.id THEN wi ELSE st.all[i]],
               !.keys = IF wi.id \in Range(st.keys) THEN st.keys
                        ELSE Append(st.keys, wi.id),
               !.all_ids = @ \cup {wi.id},
               !.stack = SubSeq(@, 1, Len(@) - 1)]
  IN  fetch_item_return(s1, t, wi.id)

\* an exception leaves every call of the task: each `async with` it passes
\* releases its lock; nothing is stored
RECURSIVE ReleaseAll(_, _, _)
ReleaseAll(locks, stack, k) ==
  IF k > Len(stack) THEN locks
  ELSE ReleaseAll(IF stack[k].at = "lock" THEN locks
                  ELSE release(locks, stack[k].id), stack, k + 1)

fetch_item_raise(st, t) ==
  [st EXCEPT !.item_locks = ReleaseAll(@, st.stack, 1),
             !.stack = <<>>,
             !.status = "failed"]

\* The objects of WorkItems are kept in `all` by id and the keys of the dict
\* self.all in `keys`: other_parent, which work_item_tree puts in root_items
\* and not in the dict, is the object 0.

\* one turn of the loop of work_item_tree; st = [all, root_items, other_items]
WorkItems_TreeStep(st, ks, id) ==
  LET item == st.all[id]
  IN  IF item.parent # 0
      THEN IF item.parent \in Range(ks)
           THEN [st EXCEPT !.all[item.parent].children = Append(@, id)]
           ELSE st
      ELSE IF item.type = "Other"
      THEN [st EXCEPT !.other_items = Append(@, id)]
      ELSE [st EXCEPT !.root_items = Append(@, id)]

RECURSIVE WorkItems_TreeLoop(_, _, _)
WorkItems_TreeLoop(st, ks, i) ==
  IF i > Len(ks) THEN st
  ELSE WorkItems_TreeLoop(WorkItems_TreeStep(st, ks, ks[i]), ks, i + 1)

\* WorkItems.work_item_tree
WorkItems_work_item_tree(its, ks) ==
  LET st == WorkItems_TreeLoop([all |-> its, root_items |-> <<>>,
                                other_items |-> <<>>], ks, 1)
      op == [id |-> 0, type |-> "Other", icon |-> "Other",
                       parent |-> 0, comment_count |-> 0,
                       children |-> st.other_items, children_by_type |-> <<>>]
  IN  IF st.other_items # <<>>
      THEN [all |-> [i \in DOMAIN st.all \cup {0} |->
                       IF i = 0 THEN op ELSE st.all[i]],
            root_items |-> Append(st.root_items, 0)]
      ELSE [all |-> st.all, root_items |-> st.root_items]

\* get_items lines 70-76: the children of the item the dict has under 0 that
\* have children of their own are taken out of its children
remove_other_items(its, ks) ==
  IF 0 \in Range(ks)
  THEN [its EXCEPT ![0].children =
          SelectSeq(@, LAMBDA c : its[c].children = <<>>)]
  ELSE its

\* WorkItems._group_children: every item of the list that has children gets
\* children_by_type, a WorkItemChildren per type of its children in order of
\* first occurrence, and so do the children, all the way down
RECURSIVE _group_children(_, _, _)

\* variant: the items of the list only, not their children
_group_children_flat(its, lst, i) ==
  [j \in DOMAIN its |->
     IF j \in Range(lst) /\ its[j].children # <<>>
     THEN [its[j] EXCEPT !.children_by_type =
             LET grouped_children == GroupedItemsLoop(its, its[j].children, 1, <<>>)
             IN  [k \in DOMAIN grouped_children |->
                    WorkItemGroup(grouped_children[k].type,
                                  its[grouped_children[k].value[1]].icon,
                                  grouped_children[k].value)]]
     ELSE its[j]]

_group_children(its, lst, i) ==
  IF i > Len(lst) THEN its
  ELSE
    LET item == its[lst[i]]
        grouped_children == GroupedItemsLoop(its, item.children, 1, <<>>)
        s1 == IF item.children = <<>> THEN its
              ELSE [_group_children(its, item.children, 1)
                      EXCEPT ![lst[i]].children_by_type =
                        [k \in DOMAIN grouped_children |->
                           WorkItemGroup(grouped_children[k].type,
                                         its[grouped_children[k].value[1]].icon,
                                         grouped_children[k].value)]]
    IN  _group_children(s1, lst, i + 1)

\* the children of the items of the list, one after the other
RECURSIVE other_children(_, _, _)

\* variant: the children of the first item only
other_children_firstOnly(its, value, i) ==
  IF i > Len(value) THEN <<>> ELSE its[value[1]].children

other_children(its, value, i) ==
  IF i > Len(value) THEN <<>>
  ELSE its[value[i]].children \o other_children(its, value, i + 1)

\* the second loop of WorkItems.group_by_type; st = [all, value]
RECURSIVE WorkItems_GroupLoop(_, _, _)
WorkItems_GroupLoop(st, grouped_items, k) ==
  IF k > Len(grouped_items) THEN st
  ELSE
    LET key == grouped_items[k].type
        value == grouped_items[k].value
        oc == other_children(st.all, value, 1)
        s1 == IF key = "Other"
              THEN IF oc # <<>>
                   THEN [all |-> _group_children(st.all, oc, 1),
                         value |-> Append(st.value,
                                     WorkItemGroup("Other",
                                                   st.all[value[1]].icon, oc))]
                   ELSE st
              ELSE [all |-> _group_children(st.all, value, 1),
                    value |-> Append(st.value,
                                WorkItemGroup(key, st.all[value[1]].icon, value))]
    IN  WorkItems_GroupLoop(s1, grouped_items, k + 1)

\* WorkItems.group_by_type: the list of groups, and the objects with the
\* children_by_type that _group_children has set
WorkItems_group_by_type(its, lst) ==
  WorkItems_GroupLoop([all |-> its, value |-> <<>>],
                      GroupedItemsLoop(its, lst, 1, <<>>), 1)

(***************************************************************************)
(* WorkItems.get_items: the fetch_item tasks under asyncio.gather          *)
(***************************************************************************)
\* the query returned the ids of tasks; gather has made a task of every
\* fetch_item call
InitItems ==
  /\ platform = "devops"
  /\ all = EmptyMap
  /\ keys = <<>>
  /\ root_items = <<>>
  /\ by_type = <<>>
  /\ hierarchy = <<>>
  /\ runs = 0
  /\ all_items = <<>>
  /\ added = <<>>
  /\ NoNotes
  /\ NoRequests /\ NoMain
  /\ all_ids = {}
  /\ item_locks = EmptyMap
  /\ requests = EmptyMap
  /\ \E n \in 0..MaxTasks : \E work_item_ids \in [1..n -> Ids] :
       tasks = [t \in 1..n |->
                  [id |-> work_item_ids[t], status |-> "pending", stack |-> <<>>]]
  /\ pc = "gather"

\* the object and the task t as the task finds them when it runs
StOf(t) ==
  [all |-> all, keys |-> keys, all_ids |-> all_ids, item_locks |-> item_locks,
   requests |-> requests, stack |-> tasks[t].stack, status |-> "running"]

\* the task has run to its next await, its return or its exception; with
\* return_exceptions=False the first exception of a task is raised by the
\* `await asyncio.gather(...)` of get_items, and the other tasks go on
RunTask(t, st) ==
  /\ all' = st.all /\ keys' = st.keys /\ all_ids' = st.all_ids
  /\ item_locks' = st.item_locks /\ requests' = st.requests
  /\ tasks' = [tasks EXCEPT ![t].stack = st.stack, ![t].status = st.status]
  /\ pc' = IF st.status = "failed" /\ pc = "gather" THEN "raised" ELSE pc
  /\ UNCHANGED <<requestVars, mainVars, platform, root_items, by_type, hierarchy, runs, all_items,
                 added, notesVars>>

\* the tasks start in the order gather made them, before any response
AllStarted == \A t \in DOMAIN tasks : tasks[t].status # "pending"

fetch_item_start ==
  \E t \in DOMAIN tasks :
    /\ tasks[t].status = "pending"
    /\ \A u \in 1..(t - 1) : tasks[u].status # "pending"
    /\ RunTask(t, fetch_item_call(StOf(t), t, tasks[t].id))

\* Lock.acquire() returns in the first waiter once the lock is free
lock_acquired ==
  \E t \in DOMAIN tasks :
    /\ AllStarted
    /\ At(tasks[t]) = "lock"
    /\ LET id == tasks[t].stack[Len(tasks[t].stack)].id
           l == item_locks[id]
       IN  /\ ~l.locked
           /\ l.waiters # <<>> /\ Head(l.waiters) = t
           /\ RunTask(t, fetch_item_locked(
                 [StOf(t) EXCEPT
                    !.item_locks = SetLock(@, id, [locked |-> TRUE,
                                                   waiters |-> Tail(l.waiters)]),
                    !.stack = SubSeq(@, 1, Len(@) - 1)],
                 t, id))

\* send_request returns the work item the tracker has under the id
send_request_returns ==
  \E t \in DOMAIN tasks :
    /\ AllStarted
    /\ At(tasks[t]) = "request"
    /\ \E work_item \in WorkItemsOf(tasks[t].stack[Len(tasks[t].stack)].id) :
         RunTask(t, fetch_item_response(StOf(t), t, work_item))

\* send_request raises ClientError after its retries, in fetch_item or in
\* fetch_comments; fetch_item catches ClientResponseError only, and after
\* that handler `item` is unbound: either way an exception leaves the task
send_request_raises ==
  \E t \in DOMAIN tasks :
    /\ AllStarted
    /\ At(tasks[t]) \in {"request", "comments"}
    /\ RunTask(t, fetch_item_raise(StOf(t), t))

fetch_comments_returns ==
  \E t \in DOMAIN tasks :
    /\ AllStarted
    /\ At(tasks[t]) = "comments"
    /\ RunTask(t, parent_check(StOf(t), t))

\* config.model.summarise returns
summarise_returns ==
  \E t \in DOMAIN tasks :
    /\ AllStarted
    /\ At(tasks[t]) = "summary"
    /\ RunTask(t, fetch_item_finish(StOf(t), t))

\* variant: the await returns as soon as one task is done
GatherDone_firstCompleted(ts) ==
  ts = <<>> \/ \E t \in DOMAIN ts : ts[t].status = "done"

\* `await asyncio.gather(*tasks)` returns when every task has returned
GatherDone(ts) == \A t \in DOMAIN ts : ts[t].status = "done"

\* get_items lines 65-80: work_item_tree, the clean-up of item 0 and
\* group_by_type, with no await
get_items_return ==
  /\ pc = "gather"
  /\ GatherDone(tasks)
  /\ LET tree == WorkItems_work_item_tree(all, keys)
         r == WorkItems_group_by_type(remove_other_items(tree.all, keys),
                                      tree.root_items)
     IN  /\ all' = r.all
         /\ root_items' = tree.root_items
         /\ by_type' = r.value
  /\ pc' = "returned"
  /\ UNCHANGED <<requestVars, mainVars, platform, keys, hierarchy, runs, all_items, added, itemsVars,
                 notesVars>>

NextItems ==
  \/ fetch_item_start
  \/ lock_acquired
  \/ send_request_returns
  \/ send_request_raises
  \/ fetch_comments_returns
  \/ summarise_returns
  \/ get_items_return

SpecItems == InitItems /\ [][NextItems]_vars

\* a step of the event loop: a task that is ready runs, a free lock is handed
\* to its first waiter, an awaited request or summary responds
TaskStep ==
  \/ fetch_item_start
  \/ lock_acquired
  \/ send_request_returns
  \/ fetch_comments_returns
  \/ summarise_returns

\* every request responds, and the event loop does not stop while one of
\* these steps is possible
SpecItemsFair == InitItems /\ [][TaskStep]_vars /\ WF_vars(TaskStep)

(***************************************************************************)
(* WorkItems.group_by_type on lists of items of a built tree               *)
(***************************************************************************)
\* the items of lst that are in the set, in the order of lst
Sublist(lst, set) == SelectSeq(lst, LAMBDA i : i \in set)

\* work items 1..n with their types and parents, linked by work_item_tree;
\* the list handed to group_by_type is any selection of them, other_parent
\* included, in the order of the dict
InitItemsGroup ==
  /\ platform = "devops"
  /\ all_items = <<>>
  /\ added = <<>>
  /\ NoNotes
  /\ NoRequests /\ NoMain
  /\ item_locks = EmptyMap /\ tasks = <<>> /\ requests = EmptyMap
  /\ \E n \in 0..MaxLen :
       /\ keys = [i \in 1..n |-> i]
       /\ all_ids = 1..n
       /\ \E ts \in [1..n -> GroupTypes] :
          \E ps \in {f \in [1..n -> 0..n] : \A i \in 1..n : f[i] < i} :
            LET tree == WorkItems_work_item_tree(
                          [i \in 1..n |-> WorkItem(i, ts[i], ps[i], 0)], keys)
            IN  /\ all = tree.all
                /\ \E set \in SUBSET DOMAIN tree.all :
                     root_items = Sublist(keys \o <<0>>, set)
  /\ by_type = <<>>
  /\ hierarchy = <<>>
  /\ pc = "items"
  /\ runs = 0

\* self.group_by_type(items)
group_by_type_call ==
  /\ pc = "items"
  /\ LET r == WorkItems_group_by_type(all, root_items)
     IN  all' = r.all /\ by_type' = r.value
  /\ pc' = "grouped"
  /\ UNCHANGED <<requestVars, mainVars, platform, keys, root_items, hierarchy, runs, all_items, added,
                 itemsVars, notesVars>>

NextItemsGroup == group_by_type_call

SpecItemsGroup == InitItemsGroup /\ [][NextItemsGroup]_vars

(***************************************************************************)
(* send_request (src/utils.py)                                             *)
(***************************************************************************)
\* how an attempt ends: the JSON of the response; aiohttp.ClientError (which
\* raise_for_status raises as ClientResponseError) or asyncio.TimeoutError,
\* which the loop catches; or an error of response.json() that is neither,
\* json.JSONDecodeError, which is a ValueError
Outcomes == {"json", "ClientError", "TimeoutError", "ValueError"}

\* the call is made with retries in 0..MaxRetries
InitRequest ==
  /\ platform = "devops"
  /\ all = EmptyMap
  /\ keys = <<>>
  /\ root_items = <<>>
  /\ by_type = <<>>
  /\ hierarchy = <<>>
  /\ runs = 0
  /\ all_items = <<>>
  /\ added = <<>>
  /\ NoWorkItems
  /\ NoNotes
  /\ NoMain
  /\ retries \in 0..MaxRetries
  /\ attempts = <<>>
  /\ delays = <<>>
  /\ pc = "send_request"

\* variant: the loop runs retries + 1 times
send_request_loop_oneMore(n, made, outcome) ==
  IF outcome = "json" THEN "returned"
  ELSE IF outcome \in {"ClientError", "TimeoutError"}
  THEN IF made <= n THEN "get" ELSE "ClientError"
  ELSE outcome

\* `for _ in range(retries)` after an attempt, the made-th, has ended: return
\* of the JSON, the next attempt, the raise after the loop, or the exception
\* the `except` does not name
send_request_loop(n, made, outcome) ==
  IF outcome = "json" THEN "returned"
  ELSE IF outcome \in {"ClientError", "TimeoutError"}
  THEN IF made < n THEN "get" ELSE "ClientError"
  ELSE outcome

\* send_request up to its first session.get; range(0) is empty
send_request_call ==
  /\ pc = "send_request"
  /\ pc' = IF retries > 0 THEN "get" ELSE "ClientError"
  /\ UNCHANGED <<platform, all, keys, root_items, by_type, hierarchy, runs,
                 all_items, added, itemsVars, notesVars, requestVars, mainVars>>

\* one attempt ends
session_get ==
  /\ pc = "get"
  /\ \E outcome \in Outcomes :
       /\ attempts' = Append(attempts, outcome)
       /\ pc' = send_request_loop(retries, Len(attempts) + 1, outcome)
  /\ UNCHANGED <<platform, all, keys, root_items, by_type, hierarchy, runs,
                 all_items, added, itemsVars, notesVars, retries, delays,
                 mainVars>>

NextRequest == send_request_call \/ session_get

SpecRequest == InitRequest /\ [][NextRequest]_vars

(***************************************************************************)
(* fetch_parent_items and add_other_parent (src/main.py)                   *)
(***************************************************************************)
\* the work item types a fetched parent can have
ParentTypes == {"Epic", "Feature"}

\* the JSON of a parent work item, and the placeholder of add_other_parent
ParentItem(id, t) == [id |-> id, type |-> t]

OtherPlaceholder == ParentItem(0, "Other")

\* the lists without a repeated element over a set, up to a length
RECURSIVE ListsOf(_, _)
ListsOf(set, n) ==
  IF n = 0 THEN {<<>>}
  ELSE LET shorter == ListsOf(set, n - 1)
       IN  shorter \cup {Append(l, x) : l \in shorter, x \in set}

\* keys holds parent_child_groups.keys(): the parent ids of the work items of
\* the query, 0 for the items without a parent
InitMain ==
  /\ platform = "devops"
  /\ all = EmptyMap
  /\ keys \in {l \in ListsOf(0..MaxItems, MaxLen) : NoDup(l)}
  /\ root_items = <<>>
  /\ by_type = <<>>
  /\ hierarchy = <<>>
  /\ runs = 0
  /\ all_items = <<>>
  /\ added = <<>>
  /\ NoWorkItems
  /\ NoNotes
  /\ NoRequests
  /\ NoMain
  /\ pc = "fetch_parent_items"

\* fetch_parent_items: one response per parent id other than 0, in order
fetch_parent_items ==
  /\ pc = "fetch_parent_items"
  /\ LET parent_ids == SelectSeq(keys, LAMBDA parent_id : parent_id # 0)
     IN  \E ts \in [DOMAIN parent_ids -> ParentTypes] :
           parent_work_items' =
             [k \in DOMAIN parent_ids |-> ParentItem(parent_ids[k], ts[k])]
  /\ pc' = "add_other_parent"
  /\ UNCHANGED <<platform, all, keys, root_items, by_type, hierarchy, runs,
                 all_items, added, itemsVars, notesVars, requestVars, output>>

\* add_other_parent: parent_work_items[0] = {...} on a list; the assignment
\* to index 0 of an empty list raises IndexError
add_other_parent ==
  /\ pc = "add_other_parent"
  /\ IF parent_work_items = <<>>
     THEN pc' = "IndexError" /\ UNCHANGED parent_work_items
     ELSE /\ parent_work_items' = [parent_work_items EXCEPT ![1] = OtherPlaceholder]
          /\ pc' = "process_items"
  /\ UNCHANGED <<platform, all, keys, root_items, by_type, hierarchy, runs,
                 all_items, added, itemsVars, notesVars, requestVars, output>>

NextMain == fetch_parent_items \/ add_other_parent

SpecMain == InitMain /\ [][NextMain]_vars

(***************************************************************************)
(* iterate_and_print (changelog.py)                                        *)
(***************************************************************************)
\* what is written for a group header (write_type_header), for an item, or
\* as the closing </div> of a group
Written(entry, id, t) == [entry |-> entry, id |-> id, type |-> t]

\* write_azure_devops_item: the header of the item, then its children
RECURSIVE write_azure_devops_item(_, _)
RECURSIVE write_azure_devops_children(_, _, _)
write_azure_devops_item(items, id) ==
  <<Written("item", id, items[id].type)>>
    \o write_azure_devops_children(items, items[id].children, 1)

write_azure_devops_children(items, children, k) ==
  IF k > Len(children) THEN <<>>
  ELSE write_azure_devops_item(items, children[k])
         \o write_azure_devops_children(items, children, k + 1)

\* write_github_items: one line for every item of the group
write_github_items(items, item_group) ==
  IF item_group.type # "Commits"
  THEN [k \in DOMAIN item_group.items |->
          Written("item", item_group.items[k], items[item_group.items[k]].type)]
  ELSE <<>>

\* write_commit_items: a work item has no attribute sha and is skipped
write_commit_items(items, item_group) == <<>>

\* iterate_and_print, the turns k.. of `for item_group in items_by_type`
RECURSIVE iterate_and_print_loop(_, _, _, _)
iterate_and_print_loop(p, items, items_by_type, k) ==
  IF k > Len(items_by_type) THEN <<>>
  ELSE
    LET item_group == items_by_type[k]
    IN  <<Written("header", 0, item_group.type)>>
          \o (IF item_group.type = "Commit"
              THEN write_commit_items(items, item_group)
              ELSE IF p # "devops"
              THEN write_github_items(items, item_group)
              ELSE write_azure_devops_children(items, item_group.items, 1))
          \o <<Written("div", 0, item_group.type)>>
          \o iterate_and_print_loop(p, items, items_by_type, k + 1)

\* Work.generate_ordered_work_items as main awaits it, on the items of any
\* of the platform clients: _work_item_tree, and by_type as lines 266-276 of
\* _group_by_type build it, "Other" last, in WorkItemGroup objects with the
\* attribute `type` that iterate_and_print reads (typings/complex_types.py,
\* the class changelog.py imports).  With the class work.py imports the call
\* ends in the AttributeError of the action group_by_type instead.
generate_ordered_work_items ==
  /\ pc = "other"
  /\ LET r == _work_item_tree(all, keys)
     IN  /\ all' = r.all /\ root_items' = r.root_items
         /\ by_type' = Hierarchy_group_by_type(r.all, r.root_items)
  /\ pc' = "ordered"
  /\ UNCHANGED <<platform, keys, hierarchy, runs, all_items, added, itemsVars,
                 notesVars, requestVars, mainVars>>

\* iterate_and_print(items_by_type, config)
iterate_and_print ==
  /\ pc = "ordered"
  /\ output' = iterate_and_print_loop(platform, all, by_type, 1)
  /\ pc' = "printed"
  /\ UNCHANGED <<platform, all, keys, root_items, by_type, hierarchy, runs,
                 all_items, added, itemsVars, notesVars, requestVars,
                 parent_work_items>>

NextPrint ==
  \/ add
  \/ get_parent
  \/ create_other_parent
  \/ generate_ordered_work_items
  \/ iterate_and_print

SpecPrint == Init /\ [][NextPrint]_vars

(***************************************************************************)
(* Work.get_item_by_id on GitHub (platforms/github.py)                     *)
(***************************************************************************)
\* what get_issue_by_number returns when repo.get_issue raises
\* GithubException, after Work._convert_to_hierarchical
IssueNotFound ==
  [id |-> 0, type |-> "Issue", icon |-> "", root |-> FALSE, orphan |-> FALSE,
   parent_id |-> 0, children |-> <<>>, children_by_type |-> <<>>]

InitLookup ==
  /\ platform = "github"
  /\ pc = "Work.add"
  /\ all = EmptyMap
  /\ keys = <<>>
  /\ root_items = <<>>
  /\ by_type = <<>>
  /\ hierarchy = <<>>
  /\ runs = 0
  /\ all_items = <<>>
  /\ added = <<>>
  /\ NoWorkItems
  /\ NoRequests /\ NoMain
  /\ NoNotes

\* Work.get_item_by_id(item_id): the issue of that number, or the item of
\* the except branch, is handed to self.add; added records what add was given
get_item_by_id ==
  /\ pc = "Work.add"
  /\ Len(added) < MaxAdds
  /\ \E item_id \in Ids :
       \E item \in {_convert_to_work_item(platform, item_id, t, ic, 0) :
                       t \in Types(platform), ic \in Icons}
                   \cup {IssueNotFound} :
         LET r == Work_add(all, keys, item)
         IN  all' = r.all /\ keys' = r.keys /\ added' = Append(added, item)
  /\ UNCHANGED <<all_items, itemsVars, notesVars, requestVars, mainVars, platform,
                 root_items, by_type, hierarchy, pc, runs>>

NextLookup == get_item_by_id

SpecLookup == InitLookup /\ [][NextLookup]_vars

(***************************************************************************)
(* Sequences of add calls on one collection                                *)
(***************************************************************************)
InitAdd ==
  /\ \/ platform \in Platforms /\ pc = "Work.add"
     \/ platform = "devops" /\ pc = "WorkItems.add_work_item"
  /\ all = EmptyMap
  /\ keys = <<>>
  /\ root_items = <<>>
  /\ by_type = <<>>
  /\ hierarchy = <<>>
  /\ runs = 0
  /\ all_items = <<>>
  /\ added = <<>>
  /\ NoWorkItems
  /\ NoRequests /\ NoMain
  /\ NoNotes

\* self.add(work_item) with any item the client can convert
Work_add_call ==
  /\ pc = "Work.add"
  /\ Len(added) < MaxAdds
  /\ \E id \in Ids : \E t \in Types(platform) :
       \E ic \in IconChoices(platform, t) : \E par \in ParentChoices(platform, id) :
         LET wi == _convert_to_work_item(platform, id, t, ic, par)
             r == Work_add(all, keys, wi)
         IN  all' = r.all /\ keys' = r.keys /\ added' = Append(added, wi)
  /\ UNCHANGED <<all_items, itemsVars, notesVars, requestVars, mainVars, platform, root_items, by_type,
                 hierarchy, pc, runs>>

\* wi.add_work_item(work_item) with any work item
add_work_item_call ==
  /\ pc = "WorkItems.add_work_item"
  /\ Len(added) < MaxAdds
  /\ \E id \in Ids : \E wi \in WorkItemsOf(id) :
       LET r == add_work_item(all, keys, all_ids, wi)
       IN  /\ all' = r.all /\ keys' = r.keys /\ all_ids' = r.all_ids
           /\ added' = Append(added, wi)
  /\ UNCHANGED <<all_items, item_locks, tasks, requests, notesVars, requestVars, mainVars, platform,
                 root_items, by_type, hierarchy, pc, runs>>

NextAdd == Work_add_call \/ add_work_item_call

SpecAdd == InitAdd /\ [][NextAdd]_vars

(***************************************************************************)
(* updateItemGroup and summarise (modules/utils.py)                        *)
(***************************************************************************)
max_retries == 6
initial_delay == 10

\* modules/enums.py, ResponseStatus
RATE_LIMIT == 429
ERROR == 500
NOT_FOUND == 404

\* the answers of the completions endpoint: 200, the three statuses summarise
\* retries, and 401 for every other ClientResponseError
Statuses == {200, RATE_LIMIT, ERROR, NOT_FOUND, 401}

\* what summarise returns: the text of the answer, "Prompt too large", or
\* nothing (None, which the f-strings of updateItemGroup print as "None")
SummaryText == "text"
PromptTooLarge == "Prompt too large"
None == "None"

\* updateItemGroup lines 346-356: the line appended to the notes file
NotesLine(id, summary) == [id |-> id, summary |-> summary]

InitNotes ==
  /\ platform = "devops"
  /\ all = EmptyMap
  /\ keys = <<>>
  /\ root_items = <<>>
  /\ by_type = <<>>
  /\ hierarchy = <<>>
  /\ runs = 0
  /\ all_items = <<>>
  /\ added = <<>>
  /\ NoWorkItems
  /\ NoRequests /\ NoMain
  /\ \E n \in 0..MaxNotes : group_items = [i \in 1..n |-> i]
  /\ summarize_items \in BOOLEAN
  /\ item_i = 0
  /\ retry_count = 0
  /\ file_md = <<>>
  /\ pc = "item"

\* one turn of `for child_item in items` up to the first request of
\* summarise: without summaries the line is written at once; summarise
\* returns "Prompt too large" without a request when the prompt has too many
\* tokens
updateItemGroup ==
  /\ pc = "item"
  /\ item_i < Len(group_items)
  /\ \/ /\ ~summarize_items
        /\ file_md' = Append(file_md, NotesLine(group_items[item_i + 1], ""))
        /\ item_i' = item_i + 1
        /\ UNCHANGED <<pc, retry_count, attempts, delays>>
     \/ /\ summarize_items
        /\ file_md' = Append(file_md, NotesLine(group_items[item_i + 1],
                                                " - " \o PromptTooLarge))
        /\ item_i' = item_i + 1
        /\ UNCHANGED <<pc, retry_count, attempts, delays>>
     \/ /\ summarize_items
        /\ retry_count' = 0
        /\ attempts' = <<>> /\ delays' = <<>>
        /\ pc' = "post"
        /\ UNCHANGED <<item_i, file_md>>
  /\ UNCHANGED <<retries, mainVars, platform, all, keys, root_items, by_type, hierarchy, runs,
                 all_items, added, itemsVars, group_items, summarize_items>>

\* variant: the delay grows by initial_delay with every retry
summarise_delays_linear(ds, status, n) ==
  IF status \in {RATE_LIMIT, ERROR, NOT_FOUND}
  THEN Append(ds, initial_delay * (n + 1)) ELSE ds

\* the argument of asyncio.sleep in the handler of the three statuses that
\* are retried: delay = initial_delay * (2**retry_count)
summarise_delays(ds, status, n) ==
  IF status \in {RATE_LIMIT, ERROR, NOT_FOUND}
  THEN Append(ds, initial_delay * (2 ^ n)) ELSE ds

\* summarise, one turn of `while retry_count <= max_retries`: the answer to
\* session.post.  200 returns the text; 429, 500 and 404 sleep and count a
\* retry, and past max_retries the loop ends and summarise returns None; any
\* other status is raised, and updateItemGroup does not catch it.
summarise ==
  /\ pc = "post"
  /\ \E status \in Statuses :
       /\ attempts' = Append(attempts, status)
       /\ delays' = summarise_delays(delays, status, retry_count)
       /\ IF status = 200
          THEN /\ file_md' = Append(file_md, NotesLine(group_items[item_i + 1],
                                                       " - " \o SummaryText))
               /\ item_i' = item_i + 1
               /\ pc' = "item"
               /\ UNCHANGED retry_count
          ELSE IF status \in {RATE_LIMIT, ERROR, NOT_FOUND}
          THEN /\ retry_count' = retry_count + 1
               /\ IF retry_count + 1 <= max_retries
                  THEN UNCHANGED <<pc, item_i, file_md>>
                  ELSE /\ file_md' = Append(file_md,
                                            NotesLine(group_items[item_i + 1],
                                                      " - " \o None))
                       /\ item_i' = item_i + 1
                       /\ pc' = "item"
          ELSE /\ pc' = "raised"
               /\ UNCHANGED <<retry_count, item_i, file_md>>
  /\ UNCHANGED <<retries, mainVars, platform, all, keys, root_items, by_type, hierarchy, runs,
                 all_items, added, itemsVars, group_items, summarize_items>>

\* the loop over the group_items has ended
updateItemGroup_return ==
  /\ pc = "item"
  /\ item_i = Len(group_items)
  /\ pc' = "returned"
  /\ UNCHANGED <<requestVars, mainVars, platform, all, keys, root_items, by_type, hierarchy, runs,
                 all_items, added, itemsVars, notesVars>>

NextNotes == updateItemGroup \/ summarise \/ updateItemGroup_return

SpecNotes == InitNotes /\ [][NextNotes]_vars

(***************************************************************************)
(* Properties                                                              *)
(***************************************************************************)

\* the orphan flag the platform client gave the item when it was fetched
\* (absorption into "Other" leaves type and parent_id = 0 as they were)
fetched_orphan(i) ==
  _convert_to_work_item(platform, i, all[i].type, all[i].icon,
                        all[i].parent_id).orphan

\* the type attribute of a group of either WorkItemGroup class
GroupType(g) == IF "type" \in DOMAIN g THEN g.type ELSE g.item_type

\* the items reachable from the set S by children links
RECURSIVE Descendants(_, _)
Descendants(items, S) ==
  LET T == S \cup UNION {Range(items[i].children) \cap DOMAIN items : i \in S}
  IN  IF T = S THEN S ELSE Descendants(items, T)

\* the groups are a partition of the list lst by type, in list order
PartitionByType(items, groups, lst) ==
  /\ \A k \in DOMAIN groups :
       /\ groups[k].items # <<>>
       /\ groups[k].items =
            SelectSeq(lst, LAMBDA c : items[c].type = GroupType(groups[k]))
  /\ \A k, l \in DOMAIN groups :
       GroupType(groups[k]) = GroupType(groups[l]) => k = l
  /\ \A c \in Range(lst) :
       \E k \in DOMAIN groups : GroupType(groups[k]) = items[c].type

\* a group of type "Other", if there is one, is the last group
OtherLast(groups) ==
  \A k \in DOMAIN groups : GroupType(groups[k]) = "Other" => k = Len(groups)

WorkBuilt == pc \in {"done", "queried"}

\* C1: a second run of _create_other_parent, _work_item_tree and
\* _build_hierarchy on the map a first run left changes no children list,
\* leaves no duplicate in one, and the map and root_items hold the id-0
\* "Other" item once (when an orphan was fetched; there is none otherwise).
C1_RebuildIdempotent ==
  [][(WorkBuilt /\ runs' = runs + 1) =>
       /\ DOMAIN all' = DOMAIN all
       /\ \A i \in DOMAIN all :
            all'[i].children = all[i].children /\ NoDup(all'[i].children)
       /\ LET n == IF \E i \in DOMAIN all \ {0} : fetched_orphan(i) THEN 1 ELSE 0
          IN  /\ Count(keys', 0) = n
              /\ Count(root_items', 0) = n
              /\ Count(hierarchy', 0) = n]_vars

C1_Witness ==
  /\ WorkBuilt /\ runs = 2
  /\ 0 \in DOMAIN all
  /\ \E i \in DOMAIN all \ {0} : Len(all[i].children) = 2

\* C2: after hierarchy construction every item's children_by_type is a
\* partition of its children by type, in children order - for roots, for
\* "Other" and for nested items alike.
C2_ChildrenByTypePartition ==
  (pc = "hierarchy" \/ WorkBuilt) =>
    \A n \in DOMAIN all :
      PartitionByType(all, all[n].children_by_type, all[n].children)

\* C3: in by_type and in every children_by_type of heirarchy.py an "Other"
\* group is the last group.
C3_OtherLast ==
  pc = "hierarchy" =>
    /\ OtherLast(by_type)
    /\ \A n \in DOMAIN all : OtherLast(all[n].children_by_type)

\* C4: once Work has built the tree (and to the end of
\* get_items_with_details, however it ends) no item is both in the root list
\* and in a children list, no item is in two children lists, and no children
\* list or root list holds an item twice.
WorkTreeBuilt == pc \in {"tree", "grouped", "raised", "done", "queried"}

C4_OneParent ==
  WorkTreeBuilt =>
    /\ NoDup(root_items)
    /\ NoDup(hierarchy)
    /\ \A p \in DOMAIN all :
         /\ NoDup(all[p].children)
         /\ Range(all[p].children) \cap Range(root_items) = {}
         /\ Range(all[p].children) \cap Range(hierarchy) = {}
         /\ \A q \in DOMAIN all \ {p} :
              Range(all[p].children) \cap Range(all[q].children) = {}

C4_Witness ==
  /\ pc = "queried"
  /\ 0 \in DOMAIN all /\ all[0].children # <<>>
  /\ \E r \in Range(root_items) \ {0} : all[r].children # <<>>
  /\ \E c \in DOMAIN all \ {0} :
       all[c].root /\ all[c].parent_id # 0 /\ c \notin Range(root_items)

\* C5: after get_items_with_details every item of the map is reachable from
\* root_items by children links.
C5_AllReachable ==
  pc = "done" => DOMAIN all \subseteq Descendants(all, Range(root_items))

\* C6: after _create_other_parent and _work_item_tree on a freshly fetched
\* map, id 0 is in the map iff some fetched item was flagged orphan, and
\* then it is the "Other" item: root, not orphan, and in root_items.
C6_OtherIffOrphan ==
  (pc = "tree" /\ runs = 0) =>
    /\ (0 \in DOMAIN all) <=> (\E i \in DOMAIN all \ {0} : fetched_orphan(i))
    /\ 0 \in DOMAIN all =>
         /\ all[0].type = "Other" /\ all[0].root /\ ~all[0].orphan
         /\ Count(root_items, 0) = 1

C6_Witness ==
  /\ pc = "tree" /\ runs = 0
  /\ 0 \in DOMAIN all
  /\ \E i \in DOMAIN all \ {0} : ~fetched_orphan(i)

\* C7: _create_other_parent makes Other.children the items fetched as
\* orphans, in map order, and every one of them has parent_id 0 and is no
\* longer flagged orphan.
C7_OtherChildren ==
  (pc = "other" /\ 0 \in DOMAIN all) =>
    /\ all[0].children =
         SelectSeq(keys, LAMBDA i : i # 0 /\ fetched_orphan(i))
    /\ \A i \in Range(all[0].children) :
         all[i].parent_id = 0 /\ ~all[i].orphan

C7_Witness ==
  /\ pc = "other" /\ 0 \in DOMAIN all
  /\ Len(all[0].children) = 2
  /\ all[0].children[1] > all[0].children[2]
  /\ \E i \in DOMAIN all \ {0} : ~fetched_orphan(i)

\* C8: after the construction of heirarchy_builder.py every item p but
\* "Other" has as children exactly the items whose parent_id is p, each once.
C8_ChildrenAreParentLinks ==
  pc = "builder" =>
    \A p \in DOMAIN all \ {0} :
      /\ NoDup(all[p].children)
      /\ Range(all[p].children) = {i \in DOMAIN all : all[i].parent_id = p}

C8_Witness ==
  /\ pc = "builder"
  /\ \E p, q \in DOMAIN all \ {0} :
       /\ all[q].parent_id = p /\ all[p].parent_id # 0
       /\ all[p].parent_id \in DOMAIN all
       /\ q \in Range(all[p].children)

\* C9: _group_by_type returns one group per type of the list, holding the
\* items of that type in list order with the icon of the first of them; the
\* groups come in order of first occurrence, except that "Other" is last.
FirstOccurrenceOrder(groups, lst) ==
  \A k, l \in DOMAIN groups :
    (k < l /\ GroupType(groups[l]) # "Other") =>
      /\ GroupType(groups[k]) # "Other"
      /\ groups[k].items[1] \in Range(lst) /\ groups[l].items[1] \in Range(lst)
      /\ \E a, b \in DOMAIN lst :
           a < b /\ lst[a] = groups[k].items[1] /\ lst[b] = groups[l].items[1]

C9_GroupByType ==
  pc \in {"hierarchy_grouped", "builder_grouped"} =>
    /\ PartitionByType(all, by_type, root_items)
    /\ \A k \in DOMAIN by_type : by_type[k].icon = all[by_type[k].items[1]].icon
    /\ OtherLast(by_type)
    /\ FirstOccurrenceOrder(by_type, root_items)

\* C10: the root list holds exactly the items that had no resolvable parent
\* and no orphan flag when construction began (id 0 aside), plus "Other".
\* Work: the flags as fetched; the Hierarchy classes leave the flags alone.
ShouldBeRoot(i) ==
  /\ i # 0
  /\ ~(all[i].parent_id # 0 /\ all[i].parent_id \in DOMAIN all)
  /\ IF pc \in {"hierarchy", "builder"} THEN ~all[i].orphan
     ELSE ~fetched_orphan(i)

C10_Roots ==
  (pc \in {"hierarchy", "builder"} \/ WorkTreeBuilt) =>
    Range(root_items) \ {0} = {i \in DOMAIN all : ShouldBeRoot(i)}

\* C11: adding an item whose id is already in the collection changes nothing.
\* After any sequence of add / add_work_item calls the map holds one entry
\* per distinct id added, keyed by that id, and it is the item of the first
\* call with that id; every added id can be looked up.
FirstAdded(id) ==
  added[CHOOSE k \in DOMAIN added :
          added[k].id = id /\ \A j \in 1..(k - 1) : added[j].id # id]

C11_AddIsNoOp ==
  pc \in {"Work.add", "WorkItems.add_work_item"} =>
    /\ DOMAIN all = {added[k].id : k \in DOMAIN added}
    /\ \A id \in DOMAIN all : all[id] = FirstAdded(id) /\ all[id].id = id
    /\ Len(keys) = Cardinality(DOMAIN all) /\ Range(keys) = DOMAIN all
    /\ pc = "WorkItems.add_work_item" => all_ids = DOMAIN all

C11_Witness ==
  /\ pc = "Work.add" /\ Len(added) = 3
  /\ added[1].id = added[3].id /\ added[1] # added[3]
  /\ added[2].id # added[1].id

\* C12: when get_items_with_details calls _create_other_parent, after the
\* _get_parent loop, every item of the map with a nonzero parent_id has that
\* parent in the map or is flagged orphan.
C12_ParentsFetched ==
  [][(pc \in {"add", "parents"} /\ pc' = "other") =>
       \A i \in DOMAIN all :
         all[i].parent_id # 0 =>
           (all[i].parent_id \in DOMAIN all \/ all[i].orphan)]_vars

\* the recursion of _get_parent has fetched a parent and its parent
C12_Witness ==
  /\ pc = "other"
  /\ Len(keys) >= Len(all_items) + 2
  /\ \E i \in Range(all_items) :
       /\ all[i].parent_id = keys[Len(all_items) + 1]
       /\ all[all[i].parent_id].parent_id = keys[Len(all_items) + 2]

\* C13: a summarisation request that fails for good - a status summarise
\* does not retry, or the last retry used up - leaves the item written with an
\* empty summary, and updateItemGroup goes on with the next item.
C13_SummaryFailureTolerated ==
  [][pc = "post" =>
       \/ pc' = "post" /\ retry_count' = retry_count + 1
       \/ /\ pc' = "item"
          /\ item_i' = item_i + 1
          /\ \E summary \in {"", " - " \o SummaryText} :
               file_md' = Append(file_md, NotesLine(group_items[item_i + 1], summary))]_vars

\* C14: the hierarchy heirarchy_builder.py builds does not depend on the
\* summaries: on a map that differs only in the items' summary fields (here
\* the one with every summary None) the construction gives the same root
\* list, children lists, by_type and children_by_type, compared by item id.
NoSummary(its) == [i \in DOMAIN its |-> WithSummary(its[i], "None")]

C14_SummaryIndependent ==
  [][pc' = "builder" =>
       LET r == Builder_build_hierarchy(NoSummary(all), keys, <<>>)
       IN  /\ root_items' = r.root_items
           /\ by_type' = r.by_type
           /\ DOMAIN all' = DOMAIN r.all
           /\ \A i \in DOMAIN all' :
                /\ all'[i].children = r.all[i].children
                /\ all'[i].children_by_type = r.all[i].children_by_type]_vars

C14_Witness ==
  /\ pc = "builder"
  /\ \E i, j \in DOMAIN all : all[i].summary = "text" /\ all[j].summary = ""
  /\ \E i \in DOMAIN all : all[i].summary = "None" /\ i \in Range(root_items)
  /\ \E i \in Range(root_items) : all[i].children_by_type # <<>>

C16_RerunNoDuplicates ==
  pc = "hierarchy" =>
    /\ NoDup(root_items)
    /\ \A p \in DOMAIN all : NoDup(all[p].children)

\* C17: when no item was fetched, hierarchy construction leaves the map, the
\* root list, by_type and the returned list empty, makes no "Other" item and
\* raises nothing.
C17_EmptyMap ==
  DOMAIN all \subseteq {0} =>
    /\ all = EmptyMap
    /\ keys = <<>>
    /\ root_items = <<>>
    /\ by_type = <<>>
    /\ hierarchy = <<>>
    /\ pc # "raised"

C17_Witness ==
  /\ pc \in {"done", "builder"}
  /\ all = EmptyMap
  /\ root_items = <<>> /\ by_type = <<>>

\* C18: in WorkItems.get_items, work_item_tree starts only when every
\* fetch_item task of the query, with the nested parent fetches it awaits, has
\* returned, and once it has started no item is added to the collection.
C18_TreeAfterAllFetched ==
  [][/\ (pc # "returned" /\ pc' = "returned" =>
          \A t \in DOMAIN tasks :
            tasks[t].status = "done" /\ tasks[t].stack = <<>>)
     /\ (pc = "returned" => keys' = keys /\ all_ids' = all_ids)]_vars

C18_Witness ==
  /\ pc = "returned"
  /\ Len(tasks) = MaxTasks
  /\ \E t, u \in DOMAIN tasks : tasks[t].id # tasks[u].id
  /\ \E k \in Range(keys) : \A t \in DOMAIN tasks : tasks[t].id # k

\* C19: whatever the interleaving of the fetch_item calls, the tasks of the
\* query and the nested parent fetches, the tracker is asked for a work item
\* id at most once.
C19_OneRequestPerId ==
  \A item_id \in DOMAIN requests : requests[item_id] <= 1

\* the types of the items of a list
TypesOf(items, lst) == {items[lst[i]].type : i \in DOMAIN lst}

ChildrenGrouped(items, i) ==
  /\ PartitionByType(items, items[i].children_by_type, items[i].children)
  /\ \A c \in Range(items[i].children) :
       \E k \in DOMAIN items[i].children_by_type :
         items[i].children_by_type[k].type = items[c].type

\* the items listed in the groups
GroupedItems(groups) == UNION {Range(groups[k].items) : k \in DOMAIN groups}

WorkConstructionStep ==
  pc' \in {"other", "tree", "grouped", "raised", "done", "queried"}

\* C22: hierarchy construction in Work removes no item from the map and, on
\* the items the map holds, leaves id, type and root as they are, and
\* parent_id and orphan as well unless the item was flagged orphan.
C22_ConstructionFrame ==
  [][WorkConstructionStep =>
       \A i \in DOMAIN all :
         /\ i \in DOMAIN all'
         /\ all'[i].id = all[i].id
         /\ all'[i].type = all[i].type
         /\ all'[i].root = all[i].root
         /\ ~all[i].orphan =>
              /\ all'[i].parent_id = all[i].parent_id
              /\ all'[i].orphan = all[i].orphan]_vars

C22_Witness ==
  /\ pc = "queried"
  /\ 0 \in DOMAIN all /\ all[0].children # <<>>
  /\ \E i \in DOMAIN all : all[i].parent_id # 0 /\ all[all[i].parent_id].children # <<>>
  /\ all[0].children_by_type # <<>>

\* C23: send_request makes at most `retries` attempts, an attempt that
\* succeeds is the last one and its response is returned, and ClientError is
\* raised exactly when `retries` attempts were made and every one failed with
\* ClientError or a timeout.
C23_AtMostRetries ==
  /\ Len(attempts) <= retries
  /\ \A k \in DOMAIN attempts :
       attempts[k] = "json" => k = Len(attempts) /\ pc = "returned"
  /\ pc = "returned" => attempts # <<>> /\ attempts[Len(attempts)] = "json"
  /\ pc # "send_request" =>
       (pc = "ClientError" <=>
          /\ Len(attempts) = retries
          /\ \A k \in DOMAIN attempts :
               attempts[k] \in {"ClientError", "TimeoutError"})

C23_Witness ==
  /\ pc = "returned"
  /\ retries = MaxRetries
  /\ Len(attempts) = retries
  /\ attempts[1] = "ClientError" /\ attempts[2] = "TimeoutError"

\* C24: add_other_parent puts the id-0 "Other" placeholder into
\* parent_work_items and leaves every parent item fetch_parent_items returned
\* in the list, whatever the number of fetched parents, zero included.
C24_OtherParentAdded ==
  [][pc = "add_other_parent" =>
       /\ pc' = "process_items"
       /\ OtherPlaceholder \in Range(parent_work_items')
       /\ \A k \in DOMAIN parent_work_items :
            parent_work_items[k] \in Range(parent_work_items')]_vars

\* C25: Work.get_items_with_details comes to its end whatever the parent
\* references of the fetchable items are, a cycle or an item that is its own
\* parent included: the prefetch of the parents stops, so that every run
\* reaches the exception of _group_by_type or the last call, _build_hierarchy,
\* which is one step that returns (the witness is its return on a cycle).
C25_Terminates == <>(pc \in {"grouped", "raised"})

C25_Witness ==
  /\ pc = "done"
  /\ Len(keys) > Len(all_items)
  /\ \E i, j \in DOMAIN all :
       i # j /\ all[i].parent_id = j /\ all[j].parent_id = i
  /\ \E i \in DOMAIN all : i \in Range(all[i].children)

\* C26: with acyclic parent references and requests that respond, every
\* fetch_item task of the query returns and leaves no item lock held: no task
\* waits for ever for a lock.
C26_TasksComplete ==
  <>(/\ \A t \in DOMAIN tasks :
          tasks[t].status = "done" /\ tasks[t].stack = <<>>
     /\ \A id \in DOMAIN item_locks :
          ~item_locks[id].locked /\ item_locks[id].waiters = <<>>)

\* two tasks of one id have returned: the second waited for the lock the
\* first held while it fetched the parent
C26_Witness ==
  /\ \A t \in DOMAIN tasks : tasks[t].status = "done"
  /\ \E t, u \in DOMAIN tasks : t # u /\ tasks[t].id = tasks[u].id
  /\ \E k \in Range(keys) : \A t \in DOMAIN tasks : tasks[t].id # k

\* C27: summarise sends at most 7 requests for a prompt; every answer 429,
\* 500 or 404 is followed by a sleep of 10 * 2^k seconds, k the number of
\* earlier retries, and only such answers are followed by another request;
\* any other error is raised at once; and after seven answers of these three
\* statuses summarise has returned, without a result and without raising.
Retryable == {429, 500, 404}

C27_SummariseRetries ==
  /\ Len(attempts) <= 7
  /\ \A k \in DOMAIN attempts : k < Len(attempts) => attempts[k] \in Retryable
  /\ Len(delays) = Cardinality({k \in DOMAIN attempts : attempts[k] \in Retryable})
  /\ \A k \in DOMAIN delays : delays[k] = 10 * 2 ^ (k - 1)
  /\ (pc = "post" /\ attempts # <<>>) => attempts[Len(attempts)] \in Retryable
  /\ (attempts # <<>> /\ attempts[Len(attempts)] \notin Retryable \cup {200})
       => pc = "raised"
  /\ (Len(attempts) = 7 /\ attempts[7] \in Retryable)
       => /\ pc \in {"item", "returned"}
          /\ \E k \in DOMAIN file_md :
               file_md[k] = NotesLine(group_items[k], " - " \o None)

\* seven answers, each of them 429, 500 or 404, and the item written
C27_Witness ==
  /\ Len(attempts) = 7
  /\ \A k \in DOMAIN attempts : attempts[k] \in Retryable
  /\ delays[7] = 640
  /\ pc = "returned"

\* C28: a get_item_by_id call whose get_issue_by_number failed leaves the
\* item map as it was, and no item is stored under the id 0.
C28_FailedLookupNoChange ==
  [][(Len(added') > Len(added) /\ added'[Len(added')] = IssueNotFound)
       => all' = all /\ keys' = keys /\ 0 \notin DOMAIN all']_vars

\* C29: in root_items, once _work_item_tree has set it, and in the list
\* _build_hierarchy has returned, the item 0 is nowhere but at the end.
ZeroLast(lst) == \A k \in DOMAIN lst : lst[k] = 0 => k = Len(lst)

EntriesOf(id) == {k \in DOMAIN output : output[k].entry = "item" /\ output[k].id = id}

GroupItems == UNION {Range(by_type[k].items) : k \in DOMAIN by_type}

====
